---- MODULE Spec2Model ----
(***************************************************************************)
(* nb2plots: the Markdown translator (doctree2md.py) and the notebook      *)
(* translator built on it (doctree2nb.py), as state machines.               *)
(*                                                                         *)
(* A Python str is a sequence of one-character strings, so that joining,   *)
(* splitting into lines, stripping and slicing are computed, not assumed.  *)
(* A Python list of str (head, body, foot, IndentLevel.content) is a        *)
(* sequence of such sequences: its elements are the fragments.             *)
(***************************************************************************)
EXTENDS Integers, Sequences, FiniteSets, TLC

VARIABLES
    head, body, foot,   \* Translator.head / body / foot: lists of fragments
    section_level,      \* Translator.section_level
    list_prefixes,      \* Translator.list_prefixes
    indent_levels,      \* Translator.indent_levels: stack of IndentLevel
    docinfo,            \* Translator._docinfo
    warned,             \* Translator._warned
    warnings,           \* document.reporter: the warnings recorded, in order
    in_nbplot,          \* doctree2nb.Translator._in_nbplot
    cells,              \* doctree2nb.Translator._notebook['cells']
    failed,             \* an exception other than SkipNode left a handler
    open,               \* walkabout: the kinds of the nodes entered and not left
    walk,               \* walkabout: the visit / depart events delivered so far
    family,             \* the family of document trees the walk is drawn from
    call,               \* the operation performed last, with its arguments
    calls,              \* the number of calls made to the output engine
    txt,                \* the transcript handed to parse_doctest
    output,             \* the string returned by astext / parse_doctest
    done,               \* astext / parse_doctest returned
    methods             \* the visit_ and depart_ attributes of the Translator class

vars == <<head, body, foot, section_level, list_prefixes, indent_levels,
          docinfo, warned, warnings, in_nbplot, cells, failed, open, walk,
          family, call, calls, txt, output, done, methods>>

(***************************************************************************)
(* Python str and list operations.                                         *)
(***************************************************************************)
NL == "\n"

Last(s) == s[Len(s)]

Front(s) == SubSeq(s, 1, Len(s) - 1)

\* ''.join(frags)
RECURSIVE Join(_)
Join(frags) ==
    IF frags = <<>> THEN <<>> ELSE Head(frags) \o Join(Tail(frags))

\* sep.join(frags)
RECURSIVE JoinWith(_, _)
JoinWith(sep, frags) ==
    IF frags = <<>> THEN <<>>
    ELSE IF Len(frags) = 1 THEN Head(frags)
    ELSE Head(frags) \o sep \o JoinWith(sep, Tail(frags))

\* str.isspace() of one character of the model's alphabet
IsSpace(c) == c \in {" ", NL}

\* str.lstrip()
RECURSIVE LStrip(_)
LStrip(s) ==
    IF s # <<>> /\ IsSpace(Head(s)) THEN LStrip(Tail(s)) ELSE s

\* str.rstrip()
RECURSIVE RStrip(_)
RStrip(s) ==
    IF s # <<>> /\ IsSpace(Last(s)) THEN RStrip(Front(s)) ELSE s

\* str.strip()
Strip(s) == RStrip(LStrip(s))

\* The index of the first line break of s, 0 when it has none.
RECURSIVE FirstNL(_, _)
FirstNL(s, i) ==
    IF i > Len(s) THEN 0
    ELSE IF s[i] = NL THEN i
    ELSE FirstNL(s, i + 1)

\* str.splitlines(True): the lines of s, each keeping its line break.
RECURSIVE SplitLinesKeep(_)
SplitLinesKeep(s) ==
    IF s = <<>> THEN <<>>
    ELSE LET i == FirstNL(s, 1)
         IN  IF i = 0 THEN <<s>>
             ELSE <<SubSeq(s, 1, i)>> \o SplitLinesKeep(SubSeq(s, i + 1, Len(s)))

\* str.splitlines(): the lines of s without their line breaks.
SplitLines(s) ==
    LET kept == SplitLinesKeep(s)
    IN  [i \in 1..Len(kept) |->
            IF Last(kept[i]) = NL THEN Front(kept[i]) ELSE kept[i]]

\* L[n:]
DropFirst(s, n) == IF n >= Len(s) THEN <<>> ELSE SubSeq(s, n + 1, Len(s))

\* n * c
Repeat(c, n) == [i \in 1..n |-> c]

(***************************************************************************)
(* The translator object.  Every method is a function from the object's    *)
(* state (a record of its attributes) to its state after the call; an      *)
(* exception other than SkipNode sets failed and leaves the rest as the    *)
(* statement that raised found it.                                         *)
(***************************************************************************)
Self == [head |-> head, body |-> body, foot |-> foot,
         section_level |-> section_level, list_prefixes |-> list_prefixes,
         indent_levels |-> indent_levels, docinfo |-> docinfo,
         warned |-> warned, warnings |-> warnings, in_nbplot |-> in_nbplot,
         cells |-> cells, failed |-> failed]

Commit(s) ==
    /\ head' = s.head
    /\ body' = s.body
    /\ foot' = s.foot
    /\ section_level' = s.section_level
    /\ list_prefixes' = s.list_prefixes
    /\ indent_levels' = s.indent_levels
    /\ docinfo' = s.docinfo
    /\ warned' = s.warned
    /\ warnings' = s.warnings
    /\ in_nbplot' = s.in_nbplot
    /\ cells' = s.cells
    /\ failed' = s.failed

Sections == {"head", "body", "foot"}

\* Translator._lists[section]
Lists(self, section) ==
    CASE section = "head" -> self.head
      [] section = "body" -> self.body
      [] section = "foot" -> self.foot

\* Python's None, where a str is expected: no str of the model equals it.
None == <<"None">>

\* IndentLevel.__init__; base names the list written to in the end: a
\* section's list, or "parent", the content of the level below on the stack.
IndentLevel(base, prefix, first_prefix) ==
    [base |-> base, prefix |-> prefix,
     first_prefix |-> IF first_prefix = None THEN prefix ELSE first_prefix,
     content |-> <<>>]

\* The mutants of IndentLevel_write: every later line prefixed, blank or not;
\* and first_prefix on every line.
IndentLevel_write_PrefixesBlank(level) ==
    LET lines == SplitLinesKeep(Join(level.content))
    IN  IF Len(lines) = 0 THEN <<>>
        ELSE <<Join([i \in 1..Len(lines) |->
                 IF i = 1 THEN level.first_prefix \o lines[i]
                 ELSE level.prefix \o lines[i]])>>

\* IndentLevel.write: the fragments it appends to base, none or one.
IndentLevel_write(level) ==
    LET string == Join(level.content)
        lines == SplitLinesKeep(string)
    IN  IF Len(lines) = 0 THEN <<>>
        ELSE <<Join([i \in 1..Len(lines) |->
                 IF i = 1 THEN level.first_prefix \o lines[i]
                 ELSE IF Strip(lines[i]) = <<>> THEN <<NL>>
                 ELSE level.prefix \o lines[i]])>>

\* Translator.reset
reset(self) ==
    [self EXCEPT !.head = <<>>, !.body = <<>>, !.foot = <<>>,
                 !.section_level = 0,
                 !.list_prefixes = <<>>,
                 !.indent_levels = <<>>,
                 !.docinfo = [title |-> <<>>, subtitle |-> <<>>,
                              author |-> <<>>, date |-> <<>>,
                              copyright |-> <<>>, version |-> <<>>]]

\* One region's list after drop_trailing_eols.
DropEol(L) == IF L # <<>> /\ Last(L) = <<NL>> THEN Front(L) ELSE L

\* Translator.drop_trailing_eols
drop_trailing_eols(self) ==
    [self EXCEPT !.head = DropEol(self.head),
                 !.body = DropEol(self.body),
                 !.foot = DropEol(self.foot)]

\* The mutant of astext_text: the regions joined body first.
astext_text_BodyFirst(self) == Join(self.body \o self.head \o self.foot)

\* The string Translator.astext returns, after drop_trailing_eols.
astext_text(self) == Join(self.head \o self.body \o self.foot)

\* The mutant of get_current_output: the section's list whatever the stack.
get_current_output_IgnoresLevels(self, section) == section

\* Translator.get_current_output: "level" names the innermost IndentLevel.
get_current_output(self, section) ==
    IF self.indent_levels # <<>> THEN "level" ELSE section

\* The list or IndentLevel content that target names.
OutputOf(self, target) ==
    IF target = "level" THEN Last(self.indent_levels).content
    ELSE Lists(self, target)

\* target.append(string)
AppendTo(self, target, string) ==
    CASE target = "level" ->
            [self EXCEPT !.indent_levels[Len(self.indent_levels)].content =
                             Append(@, string)]
      [] target = "head" -> [self EXCEPT !.head = Append(@, string)]
      [] target = "body" -> [self EXCEPT !.body = Append(@, string)]
      [] target = "foot" -> [self EXCEPT !.foot = Append(@, string)]

\* Translator.ensure_eol
ensure_eol(self) ==
    LET target == get_current_output(self, "body")
        out == OutputOf(self, target)
    IN  IF out # <<>> /\ Last(out) # <<>> /\ Last(Last(out)) # NL
        THEN AppendTo(self, target, <<NL>>)
        ELSE self

\* Translator.add
add(self, string, section) ==
    AppendTo(self, get_current_output(self, section), string)

\* Translator.add_section
add_section(self, string, section) == AppendTo(self, section, string)

\* The mutant of start_level: the base is the section's list, whatever the
\* stack holds.
start_level_BaseIsSection(self, prefix, first_prefix, section) ==
    [self EXCEPT !.indent_levels =
                     Append(@, IndentLevel(section, prefix, first_prefix))]

\* Translator.start_level
start_level(self, prefix, first_prefix, section) ==
    LET base == IF self.indent_levels # <<>> THEN "parent" ELSE section
    IN  [self EXCEPT !.indent_levels =
                         Append(@, IndentLevel(base, prefix, first_prefix))]

\* Translator.finish_level; list.pop() of an empty list raises IndexError.
finish_level(self) ==
    IF self.indent_levels = <<>> THEN [self EXCEPT !.failed = TRUE]
    ELSE LET level == Last(self.indent_levels)
             popped == [self EXCEPT !.indent_levels = Front(@)]
             texts == IndentLevel_write(level)
             target == IF level.base = "parent" THEN "level" ELSE level.base
         IN  IF texts = <<>> THEN popped
             ELSE AppendTo(popped, target, texts[1])

(***************************************************************************)
(* doctree2nb.parse_doctest.  _EXAMPLE_RE is anchored at line starts and   *)
(* every part of it consumes whole lines, so it is matched on the lines of *)
(* the dedented text.                                                      *)
(***************************************************************************)
\* The number of spaces a line starts with.
RECURSIVE LeadingSpaces(_)
LeadingSpaces(line) ==
    IF line # <<>> /\ Head(line) = " " THEN 1 + LeadingSpaces(Tail(line))
    ELSE 0

\* (?![ ]*$) fails: the line holds spaces only.
IsBlankLine(line) == LeadingSpaces(line) = Len(line)

\* ^[ ]*>>>.* : a PS1 line.
IsPS1(line) ==
    LET i == LeadingSpaces(line)
    IN  Len(line) >= i + 3 /\ SubSeq(line, i + 1, i + 3) = <<">", ">", ">">>

\* [ ]*\.\.\..* : a PS2 line.
IsPS2(line) ==
    LET i == LeadingSpaces(line)
    IN  Len(line) >= i + 3 /\ SubSeq(line, i + 1, i + 3) = <<".", ".", ".">>

\* A line of the want group: not blank, not starting with PS1.
IsWant(line) == ~IsBlankLine(line) /\ ~IsPS1(line)

RECURSIVE MinIndent(_)
MinIndent(lines) ==
    IF lines = <<>> THEN 0
    ELSE LET rest == SelectSeq(Tail(lines), LAMBDA L : ~IsBlankLine(L))
             i == LeadingSpaces(Head(lines))
         IN  IF rest = <<>> THEN i
             ELSE LET m == MinIndent(rest) IN IF i < m THEN i ELSE m

\* textwrap.dedent, on the lines of the text: lines of white space only are
\* emptied, the margin common to the other lines is removed.
dedent(lines) ==
    LET margin == MinIndent(SelectSeq(lines, LAMBDA L : ~IsBlankLine(L)))
    IN  [i \in 1..Len(lines) |->
            IF IsBlankLine(lines[i]) THEN <<>>
            ELSE DropFirst(lines[i], margin)]

\* (?:\n[ ]*\.\.\..*)* : the index of the last line of the run of PS2 lines
\* that starts at line i; i - 1 when line i is not a PS2 line.
RECURSIVE PS2End(_, _)
PS2End(lines, i) ==
    IF i <= Len(lines) /\ IsPS2(lines[i]) THEN PS2End(lines, i + 1)
    ELSE i - 1

\* The same for the run of want lines that starts at line i.
RECURSIVE WantRunEnd(_, _)
WantRunEnd(lines, i) ==
    IF i <= Len(lines) /\ IsWant(lines[i]) THEN WantRunEnd(lines, i + 1)
    ELSE i - 1

\* The mutant of SourceOf: the prompt removed without the space after it.
SourceOf_KeepsSpace(source_lines, indent) ==
    JoinWith(<<NL>>, [i \in 1..Len(source_lines) |->
                        DropFirst(source_lines[i], indent + 3)])

\* '\n'.join([L[indent + 4:] for L in source_lines])
SourceOf(source_lines, indent) ==
    JoinWith(<<NL>>, [i \in 1..Len(source_lines) |->
                        DropFirst(source_lines[i], indent + 4)])

\* The index of the last line of the want group that follows source line j.
WantEnd(lines, j) == WantRunEnd(lines, j + 1)

\* _EXAMPLE_RE.finditer(txt): the source of every match from line i on.
RECURSIVE Examples(_, _)
Examples(lines, i) ==
    IF i > Len(lines) THEN <<>>
    ELSE IF IsPS1(lines[i])
    THEN LET j == PS2End(lines, i + 1)
             indent == LeadingSpaces(lines[i])
             source == SourceOf(SubSeq(lines, i, j), indent)
         IN  <<source>> \o Examples(lines, WantEnd(lines, j) + 1)
    ELSE Examples(lines, i + 1)

\* parse_doctest; the model's alphabet holds no tab for expandtabs to expand.
parse_doctest(doctest_txt) ==
    LET lines == dedent(SplitLines(doctest_txt))
    IN  JoinWith(<<NL>>, Examples(lines, 1))

(***************************************************************************)
(* The visit_ and depart_ methods of doctree2md.Translator.  A method that *)
(* reads node.astext() takes that text as its argument.                    *)
(***************************************************************************)
\* The method add_pass_thru defines: pass.
pass_thru(self) == self

\* Translator.visit_Text
visit_Text(self, text) == add(self, text, "body")

\* Translator.visit_docinfo_item; it ends by raising SkipNode.
visit_docinfo_item(self, text, name) ==
    IF name = "author"
    THEN [self EXCEPT !.docinfo.author = Append(@, text)]
    ELSE [self EXCEPT !.docinfo[name] = text]

\* Translator.visit_subtitle: for a child of the document it ends by the
\* SkipNode of visit_docinfo_item, and else returns.
visit_subtitle(self, text, parent) ==
    IF parent = "document" THEN visit_docinfo_item(self, text, "subtitle")
    ELSE self

\* Translator.visit_paragraph
visit_paragraph(self) == self

\* The mutant of depart_paragraph: the line is ended, no blank line follows.
depart_paragraph_NoBlankLine(self) == ensure_eol(self)

\* Translator.depart_paragraph
depart_paragraph(self) == add(ensure_eol(self), <<NL>>, "body")

\* The character U+0060 of the fence, which no string of TLA+ can hold: one
\* element of a str like any other character.
Backtick == "U+0060"

\* Translator.visit_literal_block; code_type is the second class of a node
\* of class 'code', else ''.
visit_literal_block(self, code_type) ==
    add(self, <<Backtick, Backtick, Backtick>> \o code_type \o <<NL>>, "body")

\* Translator.depart_literal_block
depart_literal_block(self) ==
    add(ensure_eol(self), <<Backtick, Backtick, Backtick, NL, NL>>, "body")

\* Translator.visit_block_quote
visit_block_quote(self) == start_level(self, <<">", " ">>, None, "body")

\* Translator.depart_block_quote
depart_block_quote(self) == finish_level(self)

\* Translator.visit_section
visit_section(self) == [self EXCEPT !.section_level = @ + 1]

\* Translator.depart_section
depart_section(self) == [self EXCEPT !.section_level = @ - 1]

\* Translator.visit_enumerated_list
visit_enumerated_list(self) ==
    [self EXCEPT !.list_prefixes = Append(@, <<"1", ".", " ">>)]

\* Translator.depart_enumerated_list, also depart_bullet_list; list.pop()
\* of an empty list raises IndexError.
depart_enumerated_list(self) ==
    IF self.list_prefixes = <<>> THEN [self EXCEPT !.failed = TRUE]
    ELSE [self EXCEPT !.list_prefixes = Front(@)]

\* Translator.visit_bullet_list
visit_bullet_list(self) ==
    [self EXCEPT !.list_prefixes = Append(@, <<"*", " ">>)]

\* Translator.visit_list_item; list_prefixes[-1] of an empty list raises
\* IndexError.
visit_list_item(self) ==
    IF self.list_prefixes = <<>> THEN [self EXCEPT !.failed = TRUE]
    ELSE LET first_prefix == Last(self.list_prefixes)
             prefix == Repeat(" ", Len(first_prefix))
         IN  start_level(self, prefix, first_prefix, "body")

\* The mutant of depart_list_item: the level of the item is left on the stack.
depart_list_item_KeepsLevel(self) == self

\* Translator.depart_list_item
depart_list_item(self) == finish_level(self)

\* Translator.visit_title
visit_title(self, text) ==
    IF self.section_level = 0
    THEN [add_section(self, <<"#", " ">>, "head") EXCEPT !.docinfo.title = text]
    ELSE add(self, Repeat("#", self.section_level + 1) \o <<" ">>, "body")

\* Translator.depart_title
depart_title(self) == add(ensure_eol(self), <<NL>>, "body")

\* Translator.unknown_visit; it ends by raising SkipNode.
unknown_visit(self, node_type) ==
    IF node_type \notin self.warned
    THEN [self EXCEPT !.warnings = Append(@, node_type),
                      !.warned = @ \cup {node_type}]
    ELSE self

(***************************************************************************)
(* doctree2nb.Translator, the subclass.                                    *)
(***************************************************************************)
markdown_cell(text) == [cell_type |-> "markdown", source |-> text]

code_cell(text) == [cell_type |-> "code", source |-> text]

\* The mutant of nb_reset: the set of kinds warned about is emptied too.
nb_reset_ForgetsWarned(self) ==
    [reset(self) EXCEPT !.in_nbplot = FALSE, !.warned = {}]

\* doctree2nb.Translator.reset
nb_reset(self) == [reset(self) EXCEPT !.in_nbplot = FALSE]

\* doctree2nb.Translator._add_text_block
add_text_block(self, text) ==
    [self EXCEPT !.cells = Append(@, markdown_cell(text))]

\* The mutant of flush_text: the text is not stripped before it is tested.
flush_text_NoStrip(self) ==
    LET dropped == drop_trailing_eols(self)
        text == astext_text(dropped)
    IN  nb_reset(IF text # <<>> THEN add_text_block(dropped, text) ELSE dropped)

\* doctree2nb.Translator.flush_text
flush_text(self) ==
    LET dropped == drop_trailing_eols(self)
        text == Strip(astext_text(dropped))
    IN  nb_reset(IF text # <<>> THEN add_text_block(dropped, text) ELSE dropped)

\* The mutant of add_code_block: the code cell goes in before the text.
add_code_block_CodeFirst(self, text) ==
    flush_text([self EXCEPT !.cells = Append(@, code_cell(text))])

\* doctree2nb.Translator.add_code_block
add_code_block(self, text) ==
    LET flushed == flush_text(self)
    IN  [flushed EXCEPT !.cells = Append(@, code_cell(text))]

\* doctree2nb.Translator.visit_doctest_block; it ends by raising SkipNode.
nb_visit_doctest_block(self, text) ==
    LET doctest_txt == Strip(text)
    IN  IF doctest_txt # <<>>
        THEN add_code_block(self, parse_doctest(doctest_txt))
        ELSE self

\* doctree2nb.Translator.visit_nbplot_rendered
visit_nbplot_rendered(self) == [self EXCEPT !.in_nbplot = TRUE]

\* doctree2nb.Translator.depart_nbplot_rendered
depart_nbplot_rendered(self) == [self EXCEPT !.in_nbplot = FALSE]

\* doctree2nb.Translator.visit_literal_block: it returns what the base method
\* does when _in_nbplot is not set, and else ends by raising SkipNode.
nb_visit_literal_block(self, text) ==
    IF ~self.in_nbplot THEN visit_literal_block(self, <<>>)
    ELSE add_code_block(self, text)

\* doctree2nb.Translator.visit_mpl_hint; it ends by raising SkipNode.
visit_mpl_hint(self) ==
    add_code_block(self, <<"%", "m", "a", "t", "p", "l", "o", "t", "l", "i",
                           "b", " ", "i", "n", "l", "i", "n", "e">>)

(***************************************************************************)
(* The class decorators add_pref_suff and add_pass_thru.  The class is the *)
(* table of its visit_ and depart_ attributes, by element name; an         *)
(* attribute is Undefined, or the method defined in the class body, or the *)
(* method a decorator made.  A decorator returns the table it leaves and   *)
(* whether it raised ValueError.                                           *)
(***************************************************************************)
\* Element names: one of PASS_THRU_ELEMENTS, one of PREF_SUFF_ELEMENTS, one
\* with methods in the class body, and one with none.
ElementNames == {"document", "emphasis", "paragraph", "image"}

Undefined == <<>>

\* _make_method(to_add): the method that adds to_add
MakeMethod(to_add) == <<"add", to_add>>

\* The class body of doctree2md.Translator: <<"def">> is a method written in
\* it (visit_paragraph, depart_paragraph).
ClassBody ==
    [name \in ElementNames |->
        IF name = "paragraph" THEN [visit |-> <<"def">>, depart |-> <<"def">>]
        ELSE [visit |-> Undefined, depart |-> Undefined]]

\* hasattr(cls, meth_prefix + element_name)
hasattr(cls, meth_prefix, element_name) ==
    cls[element_name][meth_prefix] # Undefined

\* add_pref_suff(pref_suff_map)(cls), for a map of one key.
add_pref_suff(cls, key, prefix, suffix) ==
    [methods |-> [cls EXCEPT ![key].visit = MakeMethod(prefix),
                             ![key].depart = MakeMethod(suffix)],
     raised |-> FALSE]

\* add_pass_thru(pass_thrus)(cls); <<"pass">> is its meth, and the attributes
\* set before the raise stay.
RECURSIVE add_pass_thru(_, _)
add_pass_thru(cls, pass_thrus) ==
    IF pass_thrus = <<>> THEN [methods |-> cls, raised |-> FALSE]
    ELSE LET name == Head(pass_thrus)
             visited == [cls EXCEPT ![name].visit = <<"pass">>]
         IN  IF hasattr(cls, "visit", name)
             THEN [methods |-> cls, raised |-> TRUE]
             ELSE IF hasattr(visited, "depart", name)
             THEN [methods |-> visited, raised |-> TRUE]
             ELSE add_pass_thru([visited EXCEPT ![name].depart = <<"pass">>],
                                Tail(pass_thrus))

\* The class as the module leaves it: @add_pass_thru(PASS_THRU_ELEMENTS)
\* applied to @add_pref_suff(PREF_SUFF_ELEMENTS) applied to the class body.
TranslatorMethods ==
    add_pass_thru(add_pref_suff(ClassBody, "emphasis", <<"*">>, <<"*">>).methods,
                  <<"document">>).methods

(***************************************************************************)
(* The state after Translator.__init__ (both classes), before any call.    *)
(***************************************************************************)
NoCall == [op |-> "", text |-> <<>>, section |-> ""]

Called(op, text, section) ==
    call' = [op |-> op, text |-> text, section |-> section]

Fresh ==
    reset([head |-> <<>>, body |-> <<>>, foot |-> <<>>,
           section_level |-> 0, list_prefixes |-> <<>>,
           indent_levels |-> <<>>, docinfo |-> <<>>,
           warned |-> {}, warnings |-> <<>>, in_nbplot |-> FALSE,
           cells |-> <<>>, failed |-> FALSE])

InitObject ==
    /\ head = Fresh.head
    /\ body = Fresh.body
    /\ foot = Fresh.foot
    /\ section_level = Fresh.section_level
    /\ list_prefixes = Fresh.list_prefixes
    /\ indent_levels = Fresh.indent_levels
    /\ docinfo = Fresh.docinfo
    /\ warned = Fresh.warned
    /\ warnings = Fresh.warnings
    /\ in_nbplot = Fresh.in_nbplot
    /\ cells = Fresh.cells
    /\ failed = Fresh.failed
    /\ open = <<>>
    /\ walk = <<>>
    /\ call = NoCall
    /\ calls = 0
    /\ output = <<>>
    /\ done = FALSE

InitFamily(f) ==
    /\ InitObject
    /\ family = f
    /\ txt = <<>>
    /\ methods = TranslatorMethods

Running == ~failed /\ ~done

\* The families rendered by doctree2nb.Translator; doctree2md.Translator
\* renders the others.
NbFamilies == {"nb", "cells", "plot"}

\* visitor.astext() once the walk is over
Walked == Running /\ walk # <<>> /\ open = <<>>

(***************************************************************************)
(* The output engine on its own: any sequence of calls of add,             *)
(* add_section, start_level, finish_level, ensure_eol, ended by astext.    *)
(***************************************************************************)
MaxCalls == 5

\* The engine families: "engine", and "eol", which writes short strings, the
\* empty one among them, and calls add, start_level and ensure_eol only.
EngineFamilies == {"engine", "eol"}

\* The strings written: a line break, and three lines of which the middle
\* one is blank and the last one is not terminated; in the eol family the
\* empty string, a word and a line break.
EngineTexts ==
    IF family = "eol" THEN {<<>>, <<"a">>, <<NL>>}
    ELSE {<<NL>>, <<"a", NL, " ", NL, "b">>}

\* The (prefix, first_prefix) pairs the handlers pass to start_level.
EnginePrefixes == {<<<<">", " ">>, None>>, <<<<" ", " ">>, <<"*", " ">>>>}

Engine ==
    /\ Running /\ family \in EngineFamilies /\ calls < MaxCalls
    /\ calls' = calls + 1

Untouched == UNCHANGED <<open, walk, family, txt, methods>>

Add ==
    /\ Engine
    /\ \E string \in EngineTexts, section \in Sections :
          /\ Commit(add(Self, string, section))
          /\ Called("add", string, section)
    /\ UNCHANGED <<output, done>> /\ Untouched

AddSection ==
    /\ Engine
    /\ \E string \in {<<"x">>}, section \in Sections :
          /\ Commit(add_section(Self, string, section))
          /\ Called("add_section", string, section)
    /\ UNCHANGED <<output, done>> /\ Untouched

\* Every caller leaves section at its default, 'body'.
StartLevel ==
    /\ Engine
    /\ \E p \in EnginePrefixes :
          /\ Commit(start_level(Self, p[1], p[2], "body"))
          /\ Called("start_level", p[1], "body")
    /\ UNCHANGED <<output, done>> /\ Untouched

FinishLevel ==
    /\ Engine
    /\ Commit(finish_level(Self))
    /\ Called("finish_level", <<>>, "")
    /\ UNCHANGED <<output, done>> /\ Untouched

EnsureEol ==
    /\ Engine
    /\ Commit(ensure_eol(Self))
    /\ Called("ensure_eol", <<>>, "")
    /\ UNCHANGED <<output, done>> /\ Untouched

\* Translator.astext: called at any time in the engine family, and by
\* Writer.translate once the walk is over in the others.
Astext ==
    /\ \/ Engine
       \/ Walked /\ family \notin NbFamilies /\ calls' = calls
    /\ LET s == drop_trailing_eols(Self)
       IN  /\ Commit(s)
           /\ output' = astext_text(s)
    /\ done' = TRUE
    /\ Called("astext", <<>>, "")
    /\ UNCHANGED <<open, walk, family, txt, methods>>

NextEngine ==
    \/ Add
    \/ AddSection
    \/ StartLevel
    \/ FinishLevel
    \/ EnsureEol
    \/ Astext

SpecEngine == InitFamily("engine") /\ [][NextEngine]_vars

StartsWith(s, p) == Len(s) >= Len(p) /\ SubSeq(s, 1, Len(p)) = p

\* The levels of a stack with the content lists left out.
Frames(levels) ==
    [i \in 1..Len(levels) |->
        [base |-> levels[i].base, prefix |-> levels[i].prefix,
         first_prefix |-> levels[i].first_prefix]]

\* The content lists of all the levels but the innermost.
OuterContents(levels) == [i \in 1..(Len(levels) - 1) |-> levels[i].content]

(***************************************************************************)
(* C1.  A call add(string, section) appends string as the last fragment of *)
(* the innermost IndentLevel when the stack is not empty, and then leaves  *)
(* head, body and foot as they were whatever section is; with an empty     *)
(* stack it appends string to the list of the section named and changes    *)
(* no other list.                                                          *)
(***************************************************************************)
C1_AddStep ==
    IF indent_levels # <<>>
    THEN /\ head' = head /\ body' = body /\ foot' = foot
         /\ Frames(indent_levels') = Frames(indent_levels)
         /\ OuterContents(indent_levels') = OuterContents(indent_levels)
         /\ Last(indent_levels').content =
                Append(Last(indent_levels).content, call'.text)
    ELSE /\ indent_levels' = <<>>
         /\ \A section \in Sections :
               Lists(Self', section) =
                   IF section = call'.section
                   THEN Append(Lists(Self, section), call'.text)
                   ELSE Lists(Self, section)

C1_WriteGoesToInnermostContext ==
    [][call'.op = "add" => C1_AddStep]_vars

\* add was called for the head and the foot section inside a level: both
\* strings are in the level and the sections are empty.
C1_Witness ==
    /\ call.op = "add" /\ call.section = "foot"
    /\ Len(indent_levels) = 1
    /\ Len(Last(indent_levels).content) = 2
    /\ head = <<>> /\ body = <<>> /\ foot = <<>>

(***************************************************************************)
(* C2.  finish_level removes the innermost level and appends to its base   *)
(* (the content of the level below, or body) exactly one fragment: the     *)
(* lines of the joined content, the first with first_prefix before it,     *)
(* each later one with prefix before it if it holds a character that is    *)
(* not white space, and replaced by a bare line break otherwise; with an   *)
(* empty joined content the base is left as it was.  So every later line   *)
(* of the fragment that is not blank starts with the level's prefix, also  *)
(* as a line of the text astext returns once the stack is empty.           *)
(***************************************************************************)
NonBlank(line) == \E j \in 1..Len(line) : ~IsSpace(line[j])

C2_Materialized(level, base, base2) ==
    LET lines == SplitLinesKeep(Join(level.content))
    IN  IF lines = <<>> THEN base2 = base
        ELSE /\ Len(base2) = Len(base) + 1
             /\ Front(base2) = base
             /\ LET out == SplitLinesKeep(Last(base2))
                IN  /\ Len(out) = Len(lines)
                    /\ out[1] = level.first_prefix \o lines[1]
                    /\ \A i \in 2..Len(lines) :
                          /\ NonBlank(lines[i]) =>
                                /\ out[i] = level.prefix \o lines[i]
                                /\ StartsWith(out[i], level.prefix)
                          /\ ~NonBlank(lines[i]) => out[i] = <<NL>>

\* The later lines of the fragment appended to body are the last lines of
\* head + body as astext joins them.
C2_InOutput(level) ==
    LET lines == SplitLinesKeep(Join(level.content))
        s == drop_trailing_eols(Self')
        text == SplitLinesKeep(Join(s.head \o s.body))
    IN  Len(lines) > 1 =>
            \A i \in 2..Len(lines) :
                NonBlank(lines[i]) =>
                    StartsWith(text[Len(text) - Len(lines) + i], level.prefix)

C2_FinishStep ==
    LET level == Last(indent_levels)
        n == Len(indent_levels)
    IN  /\ Frames(indent_levels') = Frames(Front(indent_levels))
        /\ head' = head /\ foot' = foot
        /\ IF n = 1
           THEN /\ C2_Materialized(level, body, body')
                /\ C2_InOutput(level)
           ELSE /\ body' = body
                /\ OuterContents(indent_levels') =
                       OuterContents(Front(indent_levels))
                /\ C2_Materialized(level, indent_levels[n - 1].content,
                                   Last(indent_levels').content)

C10_AstextStep ==
    /\ \A section \in Sections :
          LET L == Lists(Self, section)
          IN  Lists(Self', section) =
                  IF L # <<>> /\ Last(L) = <<NL>> THEN Front(L) ELSE L
    /\ output' = Join(head') \o Join(body') \o Join(foot')
    /\ indent_levels' = indent_levels

C10_AstextDropsOneEolAndJoins ==
    [][call'.op = "astext" => C10_AstextStep]_vars

\* astext returned the text of a head, a body and a foot that all hold a
\* fragment.
C10_Witness ==
    /\ done /\ call.op = "astext"
    /\ head = <<<<"x">>>>
    /\ body = <<<<"a", NL, " ", NL, "b">>>>
    /\ foot = <<<<"x">>>>
    /\ output = <<"x", "a", NL, " ", NL, "b", "x">>

(***************************************************************************)
(* Writer.translate: document.walkabout(visitor), then visitor.astext().   *)
(* walkabout calls the visit method of a node, then walks its children in  *)
(* order, then calls its depart method; a visit method that raises         *)
(* SkipNode has neither its children walked nor its depart method called;  *)
(* any other exception ends the walk.  The tree walked is drawn node by    *)
(* node from the family of trees of the specification.                     *)
(***************************************************************************)
MaxNbNodes == 5
MaxItems == 3
MaxSections == 6
MaxPlotNodes == 6
MaxMdNodes == 7
MaxParaNodes == 5
MaxMetaNodes == 5

Top == Last(open)

Node(kind, text) == [kind |-> kind, text |-> text, n |-> 0, last |-> ""]

Visited(kind, text) == [ev |-> "visit", kind |-> kind, text |-> text]

Departed(kind) == [ev |-> "depart", kind |-> kind, text |-> <<>>]

\* The number of nodes visited so far.
NodeCount == Len(SelectSeq(walk, LAMBDA e : e.ev = "visit"))

\* The number of sections entered and not left.
OpenSections == Len(SelectSeq(open, LAMBDA o : o.kind = "section"))

T_Intro == <<"I", "n", "t", "r", "o", ".">>
T_Outro == <<"O", "u", "t", "r", "o", ".">>
T_Title == <<"T">>
T_Word == <<"x">>
T_Code == <<"y">>
T_Lines == <<"a", NL, "b">>
T_Empty == <<>>

\* node.astext() of the doctest blocks: the transcript of two examples, the
\* second with expected output, and a bare prompt.
D_Example == <<">", ">", ">", " ", "x", " ", "=", " ", "1", NL,
               ">", ">", ">", " ", "x", NL, "1">>
D_Bare == <<">", ">", ">">>

\* Node kinds for which the translators define no visit method.
UnknownKinds == {"image", "table"}

\* The bibliographic node kinds: the translators define no visit_author,
\* visit_date, visit_copyright or visit_version, so that
\* NodeVisitor.dispatch_visit hands these nodes to unknown_visit.
DocinfoKinds == {"author", "date", "copyright", "version"}

BodyKinds == {"paragraph", "block_quote", "bullet_list", "doctest_block",
              "mpl_hint"} \cup UnknownKinds

\* The notebook family: any tree of up to MaxNbNodes nodes in which the
\* document, block quotes and list items hold body elements, lists hold
\* list items and a paragraph holds one Text.
PermitsNb(kind, text) ==
    /\ NodeCount < MaxNbNodes
    /\ CASE Top.kind \in {"document", "block_quote", "list_item"} ->
               /\ kind \in BodyKinds
               /\ kind = "doctest_block" => text \in {D_Example, D_Bare}
               /\ kind # "doctest_block" => text = <<>>
          [] Top.kind = "bullet_list" -> kind = "list_item" /\ text = <<>>
          [] Top.kind = "paragraph" ->
               kind = "Text" /\ text = T_Word /\ Top.n = 0
          [] OTHER -> FALSE

\* The cells family: a document of up to MaxItems paragraphs of one Text
\* and doctest blocks, in any order.
PermitsCells(kind, text) ==
    CASE Top.kind = "document" ->
            /\ Top.n < MaxItems
            /\ \/ kind = "paragraph" /\ text = <<>>
               \/ kind = "doctest_block" /\ text \in {D_Example, D_Bare}
      [] Top.kind = "paragraph" ->
            kind = "Text" /\ text \in {T_Intro, T_Outro} /\ Top.n = 0
      [] OTHER -> FALSE

\* The list family: a document of one list of up to MaxItems items, each
\* holding one paragraph of one Text.
PermitsList(kind, text) ==
    CASE Top.kind = "document" ->
            kind \in {"bullet_list", "enumerated_list"} /\ text = <<>> /\ Top.n = 0
      [] Top.kind \in {"bullet_list", "enumerated_list"} ->
            kind = "list_item" /\ text = <<>> /\ Top.n < MaxItems
      [] Top.kind = "list_item" ->
            kind = "paragraph" /\ text = <<>> /\ Top.n = 0
      [] Top.kind = "paragraph" ->
            kind = "Text" /\ text \in {<<"a">>, <<"b">>, <<"c">>} /\ Top.n = 0
      [] OTHER -> FALSE

\* The headings family: sections nested up to MaxSections deep, each with
\* or without a title of one Text, which comes first.
PermitsHead(kind, text) ==
    CASE Top.kind \in {"document", "section"} ->
            \/ kind = "title" /\ text = T_Title /\ Top.n = 0
            \/ /\ kind = "section" /\ text = <<>>
               /\ Top.last \in {"", "title"}
               /\ OpenSections < MaxSections
      [] Top.kind = "title" ->
            kind = "Text" /\ text = Top.text /\ Top.n = 0
      [] OTHER -> FALSE

\* The plots family: any tree of up to MaxPlotNodes nodes in which the
\* document and sections hold sections, literal blocks, doctest blocks and
\* nbplot_rendered containers, a section starts with or without a title, a
\* container holds literal blocks and doctest blocks, and a literal block or
\* a title holds one Text.
PermitsPlot(kind, text) ==
    /\ NodeCount < MaxPlotNodes
    /\ CASE Top.kind \in {"document", "section"} ->
               \/ /\ kind \in {"section", "nbplot_rendered"} /\ text = <<>>
               \/ kind = "literal_block" /\ text = T_Code
               \/ kind = "doctest_block" /\ text = D_Example
               \/ /\ kind = "title" /\ text = T_Title
                  /\ Top.kind = "section" /\ Top.n = 0
          [] Top.kind = "nbplot_rendered" ->
               \/ kind = "literal_block" /\ text = T_Code
               \/ kind = "doctest_block" /\ text = D_Example
          [] Top.kind \in {"literal_block", "title"} ->
               kind = "Text" /\ text = Top.text /\ Top.n = 0
          [] OTHER -> FALSE

\* The nesting family: any tree of up to MaxMdNodes nodes in which the
\* document, block quotes and list items hold paragraphs, block quotes and
\* lists, a list holds list items and a paragraph holds one Text, of one
\* line or of two.
PermitsMd(kind, text) ==
    /\ NodeCount < MaxMdNodes
    /\ CASE Top.kind \in {"document", "block_quote", "list_item"} ->
               /\ kind \in {"paragraph", "block_quote", "bullet_list",
                            "enumerated_list"}
               /\ text = <<>>
          [] Top.kind \in {"bullet_list", "enumerated_list"} ->
               kind = "list_item" /\ text = <<>>
          [] Top.kind = "paragraph" ->
               kind = "Text" /\ text \in {T_Word, T_Lines} /\ Top.n = 0
          [] OTHER -> FALSE

\* The paragraphs family: any tree of up to MaxParaNodes nodes in which the
\* document and block quotes hold paragraphs and block quotes, and a
\* paragraph holds no Text, one or two, each of one word or empty.
PermitsPara(kind, text) ==
    /\ NodeCount < MaxParaNodes
    /\ CASE Top.kind \in {"document", "block_quote"} ->
               kind \in {"paragraph", "block_quote"} /\ text = <<>>
          [] Top.kind = "paragraph" ->
               kind = "Text" /\ text \in {T_Word, T_Empty} /\ Top.n < 2
          [] OTHER -> FALSE

\* The metadata family: a document of up to MaxMetaNodes - 1 children, each
\* a subtitle or a bibliographic node holding one of two texts.
PermitsMeta(kind, text) ==
    /\ NodeCount < MaxMetaNodes
    /\ Top.kind = "document"
    /\ kind \in DocinfoKinds \cup {"subtitle"}
    /\ text \in {<<"a">>, <<"b">>}

Permits(kind, text) ==
    CASE family = "nb" -> PermitsNb(kind, text)
      [] family = "cells" -> PermitsCells(kind, text)
      [] family = "list" -> PermitsList(kind, text)
      [] family = "head" -> PermitsHead(kind, text)
      [] family = "plot" -> PermitsPlot(kind, text)
      [] family = "md" -> PermitsMd(kind, text)
      [] family = "para" -> PermitsPara(kind, text)
      [] family = "meta" -> PermitsMeta(kind, text)
      [] OTHER -> FALSE

\* The node open has all its children: a paragraph or a title holds its
\* Text, a list an item, a list item of the list family its paragraph; a
\* paragraph of the paragraphs family may hold nothing.
Complete ==
    /\ (Top.kind \in {"paragraph", "title", "bullet_list", "enumerated_list",
                     "literal_block"}
           /\ ~(family = "para" /\ Top.kind = "paragraph"))
          => Top.n > 0
    /\ (family = "list" /\ Top.kind = "list_item") => Top.n > 0

CanVisit(kind, text) ==
    /\ Running /\ open # <<>>
    /\ Permits(kind, text)

CanDepart(kind) ==
    /\ Running /\ open # <<>>
    /\ Top.kind = kind
    /\ Complete

\* The walk after a visit method returned: the node is open.
Enter(kind, text) ==
    /\ walk' = Append(walk, Visited(kind, text))
    /\ open' = IF failed' THEN open
               ELSE Append([open EXCEPT ![Len(open)].n = @ + 1,
                                        ![Len(open)].last = kind],
                           Node(kind, text))

\* The walk after a visit method raised SkipNode.
Skip(kind, text) ==
    /\ walk' = Append(walk, Visited(kind, text))
    /\ open' = IF failed' THEN open
               ELSE [open EXCEPT ![Len(open)].n = @ + 1,
                                 ![Len(open)].last = kind]

\* The walk after a depart method returned.
Leave(kind) ==
    /\ walk' = Append(walk, Departed(kind))
    /\ open' = IF failed' THEN open ELSE Front(open)

Walking == UNCHANGED <<family, calls, txt, output, done, methods>>

VisitDocument ==
    /\ Running /\ walk = <<>> /\ family \notin EngineFamilies \cup {"parse"}
    /\ Commit(pass_thru(Self))
    /\ walk' = <<Visited("document", <<>>)>>
    /\ open' = <<Node("document", <<>>)>>
    /\ Called("visit_document", <<>>, "")
    /\ Walking

DepartDocument ==
    /\ CanDepart("document")
    /\ Commit(pass_thru(Self))
    /\ Leave("document")
    /\ Called("depart_document", <<>>, "")
    /\ Walking

VisitText ==
    /\ \E text \in {T_Word, T_Intro, T_Outro, T_Title, T_Code, T_Lines, T_Empty,
                   <<"a">>, <<"b">>, <<"c">>} :
          /\ CanVisit("Text", text)
          /\ Commit(visit_Text(Self, text))
          /\ Skip("Text", text)
          /\ Called("visit_Text", text, "")
    /\ Walking

VisitParagraph ==
    /\ CanVisit("paragraph", <<>>)
    /\ Commit(visit_paragraph(Self))
    /\ Enter("paragraph", <<>>)
    /\ Called("visit_paragraph", <<>>, "")
    /\ Walking

DepartParagraph ==
    /\ CanDepart("paragraph")
    /\ Commit(depart_paragraph(Self))
    /\ Leave("paragraph")
    /\ Called("depart_paragraph", <<>>, "")
    /\ Walking

VisitBlockQuote ==
    /\ CanVisit("block_quote", <<>>)
    /\ Commit(visit_block_quote(Self))
    /\ Enter("block_quote", <<>>)
    /\ Called("visit_block_quote", <<>>, "")
    /\ Walking

DepartBlockQuote ==
    /\ CanDepart("block_quote")
    /\ Commit(depart_block_quote(Self))
    /\ Leave("block_quote")
    /\ Called("depart_block_quote", <<>>, "")
    /\ Walking

VisitSection ==
    /\ CanVisit("section", <<>>)
    /\ Commit(visit_section(Self))
    /\ Enter("section", <<>>)
    /\ Called("visit_section", <<>>, "")
    /\ Walking

DepartSection ==
    /\ CanDepart("section")
    /\ Commit(depart_section(Self))
    /\ Leave("section")
    /\ Called("depart_section", <<>>, "")
    /\ Walking

VisitEnumeratedList ==
    /\ CanVisit("enumerated_list", <<>>)
    /\ Commit(visit_enumerated_list(Self))
    /\ Enter("enumerated_list", <<>>)
    /\ Called("visit_enumerated_list", <<>>, "")
    /\ Walking

DepartEnumeratedList ==
    /\ CanDepart("enumerated_list")
    /\ Commit(depart_enumerated_list(Self))
    /\ Leave("enumerated_list")
    /\ Called("depart_enumerated_list", <<>>, "")
    /\ Walking

VisitBulletList ==
    /\ CanVisit("bullet_list", <<>>)
    /\ Commit(visit_bullet_list(Self))
    /\ Enter("bullet_list", <<>>)
    /\ Called("visit_bullet_list", <<>>, "")
    /\ Walking

\* depart_bullet_list = depart_enumerated_list
DepartBulletList ==
    /\ CanDepart("bullet_list")
    /\ Commit(depart_enumerated_list(Self))
    /\ Leave("bullet_list")
    /\ Called("depart_bullet_list", <<>>, "")
    /\ Walking

VisitListItem ==
    /\ CanVisit("list_item", <<>>)
    /\ Commit(visit_list_item(Self))
    /\ Enter("list_item", <<>>)
    /\ Called("visit_list_item", <<>>, "")
    /\ Walking

DepartListItem ==
    /\ CanDepart("list_item")
    /\ Commit(depart_list_item(Self))
    /\ Leave("list_item")
    /\ Called("depart_list_item", <<>>, "")
    /\ Walking

VisitTitle ==
    /\ \E text \in {T_Title} :
          /\ CanVisit("title", text)
          /\ Commit(visit_title(Self, text))
          /\ Enter("title", text)
          /\ Called("visit_title", text, "")
    /\ Walking

DepartTitle ==
    /\ CanDepart("title")
    /\ Commit(depart_title(Self))
    /\ Leave("title")
    /\ Called("depart_title", <<>>, "")
    /\ Walking

UnknownVisit ==
    /\ \E kind \in UnknownKinds :
          /\ CanVisit(kind, <<>>)
          /\ Commit(unknown_visit(Self, kind))
          /\ Skip(kind, <<>>)
          /\ Called("unknown_visit", <<>>, kind)
    /\ Walking

\* dispatch_visit of an author, date, copyright or version node: there is
\* no visit method of that name, so unknown_visit is called.
UnknownVisitDocinfo ==
    /\ \E kind \in DocinfoKinds, text \in {<<"a">>, <<"b">>} :
          /\ CanVisit(kind, text)
          /\ Commit(unknown_visit(Self, kind))
          /\ Skip(kind, text)
          /\ Called("unknown_visit", text, kind)
    /\ Walking

\* The subtitle is skipped when visit_subtitle raised SkipNode, and entered
\* when it returned.
VisitSubtitle ==
    /\ \E text \in {<<"a">>, <<"b">>} :
          /\ CanVisit("subtitle", text)
          /\ Commit(visit_subtitle(Self, text, Top.kind))
          /\ IF Top.kind = "document" THEN Skip("subtitle", text)
                                      ELSE Enter("subtitle", text)
          /\ Called("visit_subtitle", text, "")
    /\ Walking

NbVisitDoctestBlock ==
    /\ \E text \in {D_Example, D_Bare} :
          /\ CanVisit("doctest_block", text)
          /\ Commit(nb_visit_doctest_block(Self, text))
          /\ Skip("doctest_block", text)
          /\ Called("visit_doctest_block", text, "")
    /\ Walking

VisitMplHint ==
    /\ CanVisit("mpl_hint", <<>>)
    /\ Commit(visit_mpl_hint(Self))
    /\ Skip("mpl_hint", <<>>)
    /\ Called("visit_mpl_hint", <<>>, "")
    /\ Walking

VisitNbplotRendered ==
    /\ CanVisit("nbplot_rendered", <<>>)
    /\ Commit(visit_nbplot_rendered(Self))
    /\ Enter("nbplot_rendered", <<>>)
    /\ Called("visit_nbplot_rendered", <<>>, "")
    /\ Walking

DepartNbplotRendered ==
    /\ CanDepart("nbplot_rendered")
    /\ Commit(depart_nbplot_rendered(Self))
    /\ Leave("nbplot_rendered")
    /\ Called("depart_nbplot_rendered", <<>>, "")
    /\ Walking

\* The block is entered when the base method returned, and skipped when the
\* method raised SkipNode.
NbVisitLiteralBlock ==
    /\ \E text \in {T_Code} :
          /\ CanVisit("literal_block", text)
          /\ Commit(nb_visit_literal_block(Self, text))
          /\ IF in_nbplot THEN Skip("literal_block", text)
                          ELSE Enter("literal_block", text)
          /\ Called("visit_literal_block", text, "")
    /\ Walking

DepartLiteralBlock ==
    /\ CanDepart("literal_block")
    /\ Commit(depart_literal_block(Self))
    /\ Leave("literal_block")
    /\ Called("depart_literal_block", <<>>, "")
    /\ Walking

\* doctree2nb.Translator.astext; the notebook is handed to nbf.writes.
NbAstext ==
    /\ Walked /\ family \in NbFamilies
    /\ Commit(flush_text(Self))
    /\ done' = TRUE
    /\ Called("astext", <<>>, "")
    /\ UNCHANGED <<open, walk, family, calls, txt, output, methods>>

(***************************************************************************)
(* parse_doctest on its own, applied to every transcript of up to MaxLines *)
(* lines.  txt is the transcript as it was built: its lines, each a        *)
(* primary-prompt line (PS1), a continuation-prompt line (PS2), a line of  *)
(* expected output (OUT) or a blank line, with its indentation and the     *)
(* text after the prompt; and whether the last line is terminated.         *)
(***************************************************************************)
MaxLines == 4

Line(tag, indent, text) == [tag |-> tag, indent |-> indent, text |-> text]

TranscriptLines ==
    { Line("PS1", 0, <<"x", " ", "=", " ", "1">>),
      Line("PS1", 0, <<"x">>),
      Line("PS1", 2, <<"x">>),
      Line("PS1", 0, <<>>),
      Line("PS2", 0, <<" ", " ", "y">>),
      Line("PS2", 2, <<"y">>),
      Line("OUT", 0, <<"1">>),
      Line("BLANK", 0, <<>>),
      Line("BLANK", 2, <<>>) }

Prompt(marker, text) == IF text = <<>> THEN marker ELSE marker \o <<" ">> \o text

\* The characters of one line of the transcript.
RenderLine(l) ==
    Repeat(" ", l.indent) \o
        CASE l.tag = "PS1" -> Prompt(<<">", ">", ">">>, l.text)
          [] l.tag = "PS2" -> Prompt(<<".", ".", ".">>, l.text)
          [] l.tag = "OUT" -> l.text
          [] l.tag = "BLANK" -> <<>>

\* The text of the transcript.
Render(t) ==
    JoinWith(<<NL>>, [i \in 1..Len(t.lines) |-> RenderLine(t.lines[i])])
        \o (IF t.eol /\ t.lines # <<>> THEN <<NL>> ELSE <<>>)

Transcripts ==
    { [lines |-> l, eol |-> e] :
        l \in UNION { [1..n -> TranscriptLines] : n \in 0..MaxLines },
        e \in BOOLEAN }

InitParse ==
    /\ InitObject
    /\ family = "parse"
    /\ methods = TranslatorMethods
    /\ txt \in Transcripts

ParseDoctest ==
    /\ Running /\ family = "parse"
    /\ output' = parse_doctest(Render(txt))
    /\ done' = TRUE
    /\ Called("parse_doctest", Render(txt), "")
    /\ Commit(Self)
    /\ UNCHANGED <<open, walk, family, calls, txt, methods>>

NextParse == ParseDoctest

SpecParse == InitParse /\ [][NextParse]_vars

(***************************************************************************)
(* C7.  parse_doctest returns the source lines of all the examples of the  *)
(* transcript (a PS1 line and the PS2 lines that follow it directly), in   *)
(* their order, each without its first indent + 4 characters, indent being *)
(* the indentation of the example's PS1 line in the dedented text, joined  *)
(* by single line breaks; no line of expected output is in it, and it is   *)
(* empty when there is no example.  When the PS2 lines of every example    *)
(* are indented as its PS1 line, what is left of each source line is the   *)
(* text after the prompt and its space.  '>>> x = 1\n>>> x\n1\n' gives     *)
(* 'x = 1\nx'.                                                             *)
(***************************************************************************)
\* Line i is a source line: a PS1 line, or a PS2 line right after one.
RECURSIVE IsSource(_, _)
IsSource(lines, i) ==
    \/ lines[i].tag = "PS1"
    \/ lines[i].tag = "PS2" /\ i > 1 /\ IsSource(lines, i - 1)

\* The index of the PS1 line of the example that source line i is part of.
RECURSIVE ExampleStart(_, _)
ExampleStart(lines, i) ==
    IF lines[i].tag = "PS1" THEN i ELSE ExampleStart(lines, i - 1)

SourceIndices(lines) == { i \in 1..Len(lines) : IsSource(lines, i) }

\* The elements of a set of numbers in increasing order.
RECURSIVE Sorted(_)
Sorted(S) ==
    IF S = {} THEN <<>>
    ELSE LET m == CHOOSE x \in S : \A y \in S : x <= y
         IN  <<m>> \o Sorted(S \ {m})

\* The indentation all the lines that are not blank share.
Margin(lines) ==
    LET I == { lines[i].indent : i \in { j \in 1..Len(lines) : lines[j].tag # "BLANK" } }
    IN  IF I = {} THEN 0 ELSE CHOOSE m \in I : \A n \in I : m <= n

WellIndented(lines) ==
    \A i \in SourceIndices(lines) :
        lines[i].indent = lines[ExampleStart(lines, i)].indent

C7_Cut(lines) ==
    LET idx == Sorted(SourceIndices(lines))
        m == Margin(lines)
    IN  JoinWith(<<NL>>,
            [k \in 1..Len(idx) |->
                DropFirst(DropFirst(RenderLine(lines[idx[k]]), m),
                          lines[ExampleStart(lines, idx[k])].indent - m + 4)])

C7_Texts(lines) ==
    LET idx == Sorted(SourceIndices(lines))
    IN  JoinWith(<<NL>>, [k \in 1..Len(idx) |-> lines[idx[k]].text])

C7_Example ==
    [lines |-> <<Line("PS1", 0, <<"x", " ", "=", " ", "1">>),
                 Line("PS1", 0, <<"x">>),
                 Line("OUT", 0, <<"1">>)>>,
     eol |-> TRUE]

C7_ParseDoctestKeepsSourceOnly ==
    (done /\ family = "parse") =>
        /\ output = C7_Cut(txt.lines)
        /\ WellIndented(txt.lines) => output = C7_Texts(txt.lines)
        /\ SourceIndices(txt.lines) = {} => output = <<>>
        /\ txt = C7_Example => output = <<"x", " ", "=", " ", "1", NL, "x">>

\* The transcript of the claim was parsed.
C7_Witness ==
    /\ done /\ family = "parse"
    /\ txt = C7_Example
    /\ call.text = <<">", ">", ">", " ", "x", " ", "=", " ", "1", NL,
                     ">", ">", ">", " ", "x", NL, "1", NL>>
    /\ output = <<"x", " ", "=", " ", "1", NL, "x">>

NextNb ==
    \/ VisitDocument
    \/ DepartDocument
    \/ VisitText
    \/ VisitParagraph
    \/ DepartParagraph
    \/ VisitBlockQuote
    \/ DepartBlockQuote
    \/ VisitBulletList
    \/ DepartBulletList
    \/ VisitListItem
    \/ DepartListItem
    \/ UnknownVisit
    \/ NbVisitDoctestBlock
    \/ VisitMplHint
    \/ NbAstext

\* doctree2nb.Translator on the trees of the notebook family.
SpecNb == InitFamily("nb") /\ [][NextNb]_vars

NextCells ==
    \/ VisitDocument
    \/ DepartDocument
    \/ VisitText
    \/ VisitParagraph
    \/ DepartParagraph
    \/ NbVisitDoctestBlock
    \/ NbAstext

\* doctree2nb.Translator on the documents of paragraphs and doctest blocks.
SpecCells == InitFamily("cells") /\ [][NextCells]_vars

NextList ==
    \/ VisitDocument
    \/ DepartDocument
    \/ VisitText
    \/ VisitParagraph
    \/ DepartParagraph
    \/ VisitBulletList
    \/ DepartBulletList
    \/ VisitEnumeratedList
    \/ DepartEnumeratedList
    \/ VisitListItem
    \/ DepartListItem
    \/ Astext

\* doctree2md.Translator on the documents of one flat list.
SpecList == InitFamily("list") /\ [][NextList]_vars

NextHead ==
    \/ VisitDocument
    \/ DepartDocument
    \/ VisitText
    \/ VisitSection
    \/ DepartSection
    \/ VisitTitle
    \/ DepartTitle
    \/ Astext

\* doctree2md.Translator on the documents of nested sections.
SpecHead == InitFamily("head") /\ [][NextHead]_vars

(***************************************************************************)
(* C3.  In the notebook translator every start_level is matched by one     *)
(* finish_level: no depart method pops an empty indent_levels or           *)
(* list_prefixes, and the walk of every tree ends without an exception.    *)
(***************************************************************************)
C3_NoDepartPopsEmptyStack == ~failed

(***************************************************************************)
(* C4.  The reporter holds one warning for an unknown node kind once a     *)
(* node of that kind was visited, and none before, however many nodes of   *)
(* the kind are visited and whatever flush_text reset in between; and a    *)
(* visit of an unknown node writes nothing to head, body, foot or a level, *)
(* adds no cell, opens no node (its children are not walked) and leaves    *)
(* the walk running.                                                       *)
(***************************************************************************)
Count(x, seq) == Len(SelectSeq(seq, LAMBDA e : e = x))

WasVisited(kind) ==
    \E i \in 1..Len(walk) : walk[i].ev = "visit" /\ walk[i].kind = kind

C4_OneWarningPerKind ==
    /\ \A kind \in UnknownKinds :
          Count(kind, warnings) = IF WasVisited(kind) THEN 1 ELSE 0
    /\ \A i \in 1..Len(warnings) : warnings[i] \in UnknownKinds

C4_SkipStep ==
    /\ head' = head /\ body' = body /\ foot' = foot
    /\ indent_levels' = indent_levels
    /\ cells' = cells
    /\ Len(open') = Len(open) /\ Last(open').kind = Last(open).kind
    /\ ~failed' /\ ~done'

C4_UnknownKindWarnedOnceAndSkipped ==
    [][C4_OneWarningPerKind' /\ (call'.op = "unknown_visit" => C4_SkipStep)]_vars

\* An image was visited, then a hint flushed and reset the translator, then
\* an image was visited again: there is one warning.
C4_Witness ==
    /\ call.op = "unknown_visit"
    /\ Len(walk) = 4
    /\ walk[2].kind = "image" /\ walk[3].kind = "mpl_hint" /\ walk[4].kind = "image"
    /\ warnings = <<"image">>

(***************************************************************************)
(* C6.  After every call of flush_text (by visit_doctest_block,            *)
(* visit_mpl_hint and astext) head, body, foot, indent_levels and          *)
(* list_prefixes are empty; the cells already there are kept in place; a   *)
(* markdown cell is among the new ones exactly when the text of head, body *)
(* and foot, stripped, is not empty, and it holds that text; so no         *)
(* markdown cell ever holds an empty text or white space only.             *)
(***************************************************************************)
C6_NoBlankMarkdownCell ==
    \A i \in 1..Len(cells) :
        cells[i].cell_type = "markdown" => Strip(cells[i].source) # <<>>

C6_FlushStep ==
    LET text == Strip(Join(DropEol(head) \o DropEol(body) \o DropEol(foot)))
        new == SubSeq(cells', Len(cells) + 1, Len(cells'))
    IN  /\ head' = <<>> /\ body' = <<>> /\ foot' = <<>>
        /\ indent_levels' = <<>>
        /\ list_prefixes' = <<>>
        /\ Len(cells') >= Len(cells)
        /\ SubSeq(cells', 1, Len(cells)) = cells
        /\ SelectSeq(new, LAMBDA c : c.cell_type = "markdown") =
              IF text # <<>> THEN <<markdown_cell(text)>> ELSE <<>>

C6_FlushEmptiesEngineAndKeepsCells ==
    [][/\ C6_NoBlankMarkdownCell'
       /\ call'.op \in {"visit_doctest_block", "visit_mpl_hint", "astext"}
             => C6_FlushStep]_vars

\* A hint inside a block quote flushed the paragraph before the quote: the
\* text is a markdown cell and the level of the quote is gone.
C6_Witness ==
    /\ call.op = "visit_mpl_hint"
    /\ Len(open) = 2 /\ Top.kind = "block_quote"
    /\ cells = <<markdown_cell(T_Word), code_cell(visit_mpl_hint(Fresh).cells[1].source)>>
    /\ indent_levels = <<>> /\ body = <<>>

(***************************************************************************)
(* C5.  For a document of paragraphs and doctest blocks the cells follow   *)
(* the document: one code cell per doctest block, holding the source       *)
(* parsed from it; one markdown cell per maximal run of paragraphs,        *)
(* holding their texts a blank line apart, before the code cell that       *)
(* follows the run; the run after the last code cell is made a cell by     *)
(* astext.  'Intro.', a transcript, 'Outro.' give markdown 'Intro.', code  *)
(* 'x = 1\nx', markdown 'Outro.'.                                          *)
(***************************************************************************)
\* The children of the document: the Text of each paragraph, and the
\* doctest blocks.
C5_Items ==
    SelectSeq(walk, LAMBDA e : e.ev = "visit" /\ e.kind \in {"Text", "doctest_block"})

C5_Run(run) ==
    IF run = <<>> THEN <<>> ELSE <<markdown_cell(JoinWith(<<NL, NL>>, run))>>

RECURSIVE C5_Cells(_, _)
C5_Cells(items, run) ==
    IF items = <<>> THEN C5_Run(run)
    ELSE IF Head(items).kind = "Text"
    THEN C5_Cells(Tail(items), Append(run, Head(items).text))
    ELSE C5_Run(run) \o <<code_cell(parse_doctest(Head(items).text))>>
             \o C5_Cells(Tail(items), <<>>)

C5_IntroCodeOutro ==
    <<Visited("Text", T_Intro), Visited("doctest_block", D_Example),
      Visited("Text", T_Outro)>>

C5_CellsFollowDocumentOrder ==
    (done /\ family = "cells") =>
        /\ cells = C5_Cells(C5_Items, <<>>)
        /\ C5_Items = C5_IntroCodeOutro =>
              cells = <<markdown_cell(T_Intro),
                        code_cell(<<"x", " ", "=", " ", "1", NL, "x">>),
                        markdown_cell(T_Outro)>>

\* The document of the claim was rendered.
C5_Witness ==
    /\ done /\ family = "cells"
    /\ C5_Items = C5_IntroCodeOutro
    /\ Len(cells) = 3 /\ cells[2].cell_type = "code"

(***************************************************************************)
(* C8.  visit_title at section depth d >= 1 writes min(d + 1,              *)
(* MaxHeadingWeight) '#' characters and a space, so never more '#' than    *)
(* the format has heading weights.                                         *)
(***************************************************************************)
\* The heading weights of Markdown: an ATX heading has one to six '#'.
MaxHeadingWeight == 6

Min(a, b) == IF a < b THEN a ELSE b

C8_MarkerStep ==
    /\ Len(body') = Len(body) + 1
    /\ Last(body') =
          Repeat("#", Min(section_level + 1, MaxHeadingWeight)) \o <<" ">>

C8_HeadingMarkerCapped ==
    [][(call'.op = "visit_title" /\ section_level >= 1) => C8_MarkerStep]_vars

(***************************************************************************)
(* C9.  A list of flat items, each one paragraph of one Text, is rendered  *)
(* as one line per item, the marker of the list and the text, each         *)
(* followed by the blank line of its paragraph, the last one too: the      *)
(* bullet list of 'a', 'b', 'c' gives '* a', '', '* b', '', '* c', ''.     *)
(***************************************************************************)
C9_Texts ==
    LET t == SelectSeq(walk, LAMBDA e : e.ev = "visit" /\ e.kind = "Text")
    IN  [i \in 1..Len(t) |-> t[i].text]

C9_IsBulletList == Len(walk) >= 2 /\ walk[2].kind = "bullet_list"

C9_Marker == IF C9_IsBulletList THEN <<"*", " ">> ELSE <<"1", ".", " ">>

C9_abc == <<<<"a">>, <<"b">>, <<"c">>>>

C9_ListItemsAreBlankLineSeparated ==
    (done /\ family = "list") =>
        /\ output = Join([i \in 1..Len(C9_Texts) |->
                              C9_Marker \o C9_Texts[i] \o <<NL, NL>>])
        /\ (C9_IsBulletList /\ C9_Texts = C9_abc) =>
              output = <<"*", " ", "a", NL, NL, "*", " ", "b", NL, NL,
                         "*", " ", "c", NL, NL>>

\* C9 as the round trip of the specification words it: three lines with no
\* blank line between them and nothing after the last one.
C9_ThreeLinesNoBlankLine ==
    (done /\ family = "list" /\ C9_IsBulletList /\ C9_Texts = C9_abc) =>
        output = <<"*", " ", "a", NL, "*", " ", "b", NL, "*", " ", "c", NL>>

\* The bullet list of 'a', 'b', 'c' was rendered.
C9_Witness ==
    /\ done /\ family = "list"
    /\ C9_IsBulletList /\ C9_Texts = C9_abc
    /\ body = <<<<"*", " ", "a", NL, NL>>, <<"*", " ", "b", NL, NL>>,
                <<"*", " ", "c", NL, NL>>>>

(***************************************************************************)
(* C11.  visit_doctest_block calls add_code_block only when the source     *)
(* parse_doctest extracts from the block is not empty: no code cell made   *)
(* from a doctest block holds an empty text.  (In the cells family every   *)
(* code cell comes from a doctest block.)                                  *)
(***************************************************************************)
C11_NoEmptyCodeCellFromTranscript ==
    \A i \in 1..Len(cells) :
        cells[i].cell_type = "code" => cells[i].source # <<>>

NextPlot ==
    \/ VisitDocument
    \/ DepartDocument
    \/ VisitSection
    \/ DepartSection
    \/ VisitTitle
    \/ DepartTitle
    \/ VisitText
    \/ VisitNbplotRendered
    \/ DepartNbplotRendered
    \/ NbVisitLiteralBlock
    \/ DepartLiteralBlock
    \/ NbVisitDoctestBlock
    \/ NbAstext

SpecPlot == InitFamily("plot") /\ [][NextPlot]_vars

(***************************************************************************)
(* C12.  The visit of a literal block with an nbplot_rendered container    *)
(* open appends a code cell holding the block's text and writes no fence,  *)
(* the first block of the container and every later one, after a doctest   *)
(* block too; the visit of a literal block with no container open adds no  *)
(* cell and writes the fence of doctree2md.Translator to the body.         *)
(***************************************************************************)
InNbplotRendered == \E i \in 1..Len(open) : open[i].kind = "nbplot_rendered"

C12_LiteralBlockStep ==
    IF InNbplotRendered
    THEN /\ Len(cells') > Len(cells)
         /\ Last(cells') = code_cell(call'.text)
         /\ body' = <<>>
         /\ Len(open') = Len(open)
    ELSE /\ cells' = cells
         /\ body' = Append(body, <<Backtick, Backtick, Backtick, NL>>)
         /\ Last(open').kind = "literal_block"

C12_LiteralBlockInPlotIsCodeCell ==
    [][call'.op = "visit_literal_block" => C12_LiteralBlockStep]_vars

(***************************************************************************)
(* C14.  section_level is never negative and equals the number of sections *)
(* entered and not left, in doctree2nb.Translator too, after a code cell   *)
(* was added inside a section.                                             *)
(***************************************************************************)
C14_SectionLevelCountsOpenSections ==
    section_level >= 0 /\ section_level = OpenSections

NextMd ==
    \/ VisitDocument
    \/ DepartDocument
    \/ VisitParagraph
    \/ DepartParagraph
    \/ VisitText
    \/ VisitBlockQuote
    \/ DepartBlockQuote
    \/ VisitBulletList
    \/ DepartBulletList
    \/ VisitEnumeratedList
    \/ DepartEnumeratedList
    \/ VisitListItem
    \/ DepartListItem
    \/ Astext

SpecMd == InitFamily("md") /\ [][NextMd]_vars

(***************************************************************************)
(* C13.  In doctree2md.Translator, at every point of the walk of a tree,   *)
(* indent_levels holds one level per block quote and list item entered and *)
(* not left, and list_prefixes one prefix per list entered and not left;   *)
(* while a level is open no step but the departure of the node that pushed *)
(* the innermost level changes head, body, foot or a level below the       *)
(* innermost one, and that departure pops the level and hands its text to  *)
(* the level below, or to body; when the walk is over both stacks are      *)
(* empty.                                                                  *)
(***************************************************************************)
OpenOf(kinds) == Len(SelectSeq(open, LAMBDA o : o.kind \in kinds))

C13_StacksMirrorNesting ==
    /\ ~failed
    /\ Len(indent_levels) = OpenOf({"block_quote", "list_item"})
    /\ Len(list_prefixes) = OpenOf({"bullet_list", "enumerated_list"})
    /\ (walk # <<>> /\ open = <<>>) =>
          indent_levels = <<>> /\ list_prefixes = <<>>

C13_Below(levels) == SubSeq(levels, 1, Len(indent_levels) - 1)

C13_WriteStep ==
    LET n == Len(indent_levels)
        texts == IndentLevel_write(indent_levels[n])
    IN  /\ Len(indent_levels') = n - 1
        /\ head' = head /\ foot' = foot
        /\ IF n = 1
           THEN body' = body \o texts
           ELSE /\ body' = body
                /\ SubSeq(indent_levels', 1, n - 2) = SubSeq(indent_levels, 1, n - 2)
                /\ indent_levels'[n - 1] =
                      [indent_levels[n - 1] EXCEPT !.content = @ \o texts]

C13_HoldStep ==
    indent_levels # <<>> =>
        /\ head' = head /\ body' = body /\ foot' = foot
        /\ C13_Below(indent_levels') = C13_Below(indent_levels)

C13_ContextsMirrorNestingAndWriteOnLeave ==
    [][/\ C13_StacksMirrorNesting'
       /\ IF call'.op \in {"depart_block_quote", "depart_list_item"}
          THEN C13_WriteStep
          ELSE C13_HoldStep]_vars

\* The block quote inside a list item inside a block quote was left: its
\* text is in the level of the list item, and in no list of the translator.
C13_Witness ==
    /\ family = "md" /\ call.op = "depart_block_quote"
    /\ [i \in 1..Len(open) |-> open[i].kind] =
          <<"document", "block_quote", "bullet_list", "list_item">>
    /\ Last(indent_levels).content = <<<<">", " ", "x", NL, NL>>>>
    /\ body = <<>>

(***************************************************************************)
(* C17.  Prefixes are applied in nesting order, outermost first: at every  *)
(* point of the walk the text of body and of every open level is the text  *)
(* obtained by rendering the nodes walked so far line by line, where the   *)
(* text of a block quote or list item that was left is added to the text   *)
(* of the context around it with the first prefix on its first line and    *)
(* the continuation prefix on its later non-blank lines.  The block quote  *)
(* in a bullet list item in a block quote, holding 'x', gives '> * > x'.   *)
(***************************************************************************)
\* The text of a context that was left, as the context around it gets it.
C17_Prefixed(ctx) ==
    LET lines == SplitLinesKeep(ctx.text)
    IN  Join([i \in 1..Len(lines) |->
                 IF i = 1 THEN ctx.first \o lines[i]
                 ELSE IF Strip(lines[i]) = <<>> THEN lines[i]
                 ELSE ctx.rest \o lines[i]])

C17_Context(first, rest) == [first |-> first, rest |-> rest, text |-> <<>>]

C17_AddText(ctxs, text) == [ctxs EXCEPT ![Len(ctxs)].text = @ \o text]

C17_EndLine(text) ==
    IF text # <<>> /\ Last(text) # NL THEN text \o <<NL>> ELSE text

\* The contexts after the events i.. of the walk: ctxs[1] is the document,
\* the others the block quotes and list items open; marks are the markers
\* of the lists open.
RECURSIVE C17_Render(_, _, _)
C17_Render(i, ctxs, marks) ==
    IF i > Len(walk) THEN ctxs
    ELSE LET e == walk[i]
             visit == e.ev = "visit"
         IN  CASE visit /\ e.kind = "Text" ->
                    C17_Render(i + 1, C17_AddText(ctxs, e.text), marks)
               [] ~visit /\ e.kind = "paragraph" ->
                    C17_Render(i + 1,
                        [ctxs EXCEPT ![Len(ctxs)].text = C17_EndLine(@) \o <<NL>>],
                        marks)
               [] visit /\ e.kind = "block_quote" ->
                    C17_Render(i + 1,
                        Append(ctxs, C17_Context(<<">", " ">>, <<">", " ">>)), marks)
               [] visit /\ e.kind = "bullet_list" ->
                    C17_Render(i + 1, ctxs, Append(marks, <<"*", " ">>))
               [] visit /\ e.kind = "enumerated_list" ->
                    C17_Render(i + 1, ctxs, Append(marks, <<"1", ".", " ">>))
               [] visit /\ e.kind = "list_item" ->
                    C17_Render(i + 1,
                        Append(ctxs, C17_Context(Last(marks),
                                                 Repeat(" ", Len(Last(marks))))),
                        marks)
               [] ~visit /\ e.kind \in {"bullet_list", "enumerated_list"} ->
                    C17_Render(i + 1, ctxs, Front(marks))
               [] ~visit /\ e.kind \in {"block_quote", "list_item"} ->
                    C17_Render(i + 1,
                        C17_AddText(Front(ctxs), C17_Prefixed(Last(ctxs))), marks)
               [] OTHER -> C17_Render(i + 1, ctxs, marks)

C17_Rendered == C17_Render(1, <<C17_Context(<<>>, <<>>)>>, <<>>)

C17_QuoteItemQuote ==
    <<"document", "block_quote", "bullet_list", "list_item", "block_quote",
      "paragraph", "Text">>

C17_IsQuoteItemQuote ==
    /\ Len(walk) >= 7
    /\ [i \in 1..7 |-> walk[i].kind] = C17_QuoteItemQuote
    /\ walk[7].text = T_Word

C17_PrefixesInNestingOrder ==
    family = "md" =>
        /\ ~done =>
              /\ Len(C17_Rendered) = Len(indent_levels) + 1
              /\ Join(body) = C17_Rendered[1].text
              /\ \A i \in 1..Len(indent_levels) :
                    /\ Join(indent_levels[i].content) = C17_Rendered[i + 1].text
                    /\ indent_levels[i].first_prefix = C17_Rendered[i + 1].first
                    /\ indent_levels[i].prefix = C17_Rendered[i + 1].rest
        /\ (done /\ C17_IsQuoteItemQuote) =>
              output = <<">", " ", "*", " ", ">", " ", "x", NL, NL>>

\* The tree of the claim was rendered.
C17_Witness ==
    /\ family = "md" /\ done /\ C17_IsQuoteItemQuote
    /\ output = <<">", " ", "*", " ", ">", " ", "x", NL, NL>>

NextPara ==
    \/ VisitDocument
    \/ DepartDocument
    \/ VisitParagraph
    \/ DepartParagraph
    \/ VisitText
    \/ VisitBlockQuote
    \/ DepartBlockQuote
    \/ Astext

SpecPara == InitFamily("para") /\ [][NextPara]_vars

(***************************************************************************)
(* C16.  After depart_paragraph, whatever the paragraph holds and whether  *)
(* a level is open or not, the text of the current output (the innermost   *)
(* level, else body) ends with a line break and one blank line, no more.   *)
(***************************************************************************)
C16_CurrentText == Join(OutputOf(Self, get_current_output(Self, "body")))

C16_EndsWithOneBlankLine(t) ==
    /\ Len(t) >= 2
    /\ t[Len(t)] = NL /\ t[Len(t) - 1] = NL
    /\ Len(t) >= 3 => t[Len(t) - 2] # NL

C16_ParagraphEndsWithOneBlankLine ==
    [][call'.op = "depart_paragraph" => C16_EndsWithOneBlankLine(C16_CurrentText')]_vars

NextEol ==
    \/ Add
    \/ StartLevel
    \/ EnsureEol

SpecEol == InitFamily("eol") /\ [][NextEol]_vars

(***************************************************************************)
(* C18.  ensure_eol appends a line break to the current output (the        *)
(* innermost level, else body) whenever that output's last fragment does   *)
(* not end in a line break, the empty fragment included; it leaves the     *)
(* output as it is when the last fragment ends in a line break; and it     *)
(* changes nothing else.                                                   *)
(***************************************************************************)
C18_EndsInEol(fragment) == fragment # <<>> /\ Last(fragment) = NL

C18_EnsureEolStep ==
    LET target == get_current_output(Self, "body")
        out == OutputOf(Self, target)
    IN  IF out = <<>> \/ C18_EndsInEol(Last(out))
        THEN Self' = Self
        ELSE Self' = AppendTo(Self, target, <<NL>>)

C18_EnsureEolAppendsLineBreak ==
    [][call'.op = "ensure_eol" => C18_EnsureEolStep]_vars

(***************************************************************************)
(* C15.  visit_title at section_level 0 writes the marker '# ' to head and *)
(* records the title's text in _docinfo['title']; the text of the title is *)
(* written to head too, not to body or to a level; and when the walk is    *)
(* over head is empty or holds one line, '# ' and the text of the title.   *)
(***************************************************************************)
C15_TitleStep ==
    /\ head' = Append(head, <<"#", " ">>)
    /\ docinfo'.title = call'.text
    /\ body' = body /\ indent_levels' = indent_levels

C15_TitleTextStep ==
    /\ Join(head') = Join(head) \o call'.text
    /\ body' = body /\ indent_levels' = indent_levels

C15_TitleLine(text) ==
    \/ text = <<>>
    \/ text = <<"#", " ">> \o T_Title
    \/ text = <<"#", " ">> \o T_Title \o <<NL>>

C15_DocumentTitleGoesToHead ==
    [][/\ (call'.op = "visit_title" /\ section_level = 0) => C15_TitleStep
       /\ (call'.op = "visit_Text" /\ Top.kind = "title" /\ section_level = 0)
             => C15_TitleTextStep
       /\ done' => C15_TitleLine(Join(head'))]_vars

NextMeta ==
    \/ VisitDocument
    \/ DepartDocument
    \/ VisitSubtitle
    \/ UnknownVisitDocinfo
    \/ Astext

SpecMeta == InitFamily("meta") /\ [][NextMeta]_vars

(***************************************************************************)
(* C19.  The visit of an author, date, copyright or version node, or of a  *)
(* subtitle that is a child of the document, puts the text of the node in  *)
(* the field of _docinfo of that name (appended for the author, set for    *)
(* the others), skips the node, writes to no list and to no level, and     *)
(* records no warning.                                                     *)
(***************************************************************************)
C19_Captured(name, text) ==
    IF name = "author"
    THEN [docinfo EXCEPT !.author = Append(@, text)]
    ELSE [docinfo EXCEPT ![name] = text]

C19_MetadataStep(node) ==
    /\ docinfo' = C19_Captured(node.kind, node.text)
    /\ head' = head /\ body' = body /\ foot' = foot
    /\ indent_levels' = indent_levels
    /\ warnings' = warnings
    /\ Len(open') = Len(open)

C19_MetadataCapturedWithoutWarning ==
    [][(/\ Len(walk') = Len(walk) + 1
        /\ Last(walk').ev = "visit"
        /\ Last(walk').kind \in DocinfoKinds \cup {"subtitle"})
          => C19_MetadataStep(Last(walk'))]_vars

(***************************************************************************)
(* The set-up of a translator class: decorators applied, in any order and  *)
(* with any arguments, to the class body; a ValueError ends it.            *)
(***************************************************************************)
MaxRegistrations == 3

InitSetup ==
    /\ InitObject
    /\ family = "setup"
    /\ txt = <<>>
    /\ methods = ClassBody

Registering ==
    /\ Running /\ family = "setup" /\ calls < MaxRegistrations
    /\ calls' = calls + 1
    /\ UNCHANGED <<head, body, foot, section_level, list_prefixes,
                   indent_levels, docinfo, warned, warnings, in_nbplot, cells,
                   open, walk, family, output, done>>

AddPrefSuff ==
    /\ Registering
    /\ \E key \in ElementNames, pair \in {<<<<"*">>, <<"*">>>>, <<<<"$">>, <<"$">>>>} :
          LET r == add_pref_suff(methods, key, pair[1], pair[2])
          IN  /\ methods' = r.methods
              /\ failed' = r.raised
              /\ txt' = <<key>>
              /\ Called("add_pref_suff", pair[1], "")

AddPassThru ==
    /\ Registering
    /\ \E pass_thrus \in { <<a>> : a \in ElementNames } \cup
                          { <<a, b>> : a \in ElementNames, b \in ElementNames } :
          LET r == add_pass_thru(methods, pass_thrus)
          IN  /\ methods' = r.methods
              /\ failed' = r.raised
              /\ txt' = pass_thrus
              /\ Called("add_pass_thru", <<>>, "")

NextSetup ==
    \/ AddPrefSuff
    \/ AddPassThru

SpecSetup == InitSetup /\ [][NextSetup]_vars

(***************************************************************************)
(* C20.  A decorator that is to define a visit_ or depart_ method of a     *)
(* name the class already has raises an error, add_pass_thru and           *)
(* add_pref_suff alike, and every method the class had stays the one it    *)
(* had.  (txt' holds the element names the decorator was given.)           *)
(***************************************************************************)
C20_AlreadyDefined(names) ==
    \/ \E i \in 1..Len(names) :
          hasattr(methods, "visit", names[i]) \/ hasattr(methods, "depart", names[i])
    \/ \E i, j \in 1..Len(names) : i # j /\ names[i] = names[j]

C20_FirstKept ==
    \A name \in ElementNames :
        /\ hasattr(methods, "visit", name) => methods'[name].visit = methods[name].visit
        /\ hasattr(methods, "depart", name) => methods'[name].depart = methods[name].depart

C20_DuplicateRegistrationFails ==
    [][call'.op \in {"add_pass_thru", "add_pref_suff"} =>
          /\ C20_AlreadyDefined(txt') => failed'
          /\ C20_FirstKept]_vars
====
